---- MODULE Spec2Model ----
(***************************************************************************)
(* A model of the query core of the ORM: katagawa/orm/query.py (the result *)
(* stream _ResultGenerator and the query builders SelectQuery, InsertQuery,*)
(* RowUpdateQuery, RowDeleteQuery) and asyncqlio/orm/schema/column.py.     *)
(*                                                                         *)
(* The specifications share the variables below:                           *)
(*   SpecStream  one _ResultGenerator pulled by a single consumer          *)
(*               (SpecStreamLive: the consumer keeps pulling)              *)
(*   SpecSelect  one SelectQuery: builder calls and generate_sql           *)
(*   SpecRun     a built SelectQuery compiled or run through the session   *)
(*   SpecBatch   one Insert/RowUpdate/RowDelete query: add_row, rows and   *)
(*               generate_sql                                              *)
(*   SpecStreamErr  SpecStream over a cursor whose fetches can raise       *)
(*   SpecOverlap two __anext__ calls on one stream that overlap in time    *)
(*   SpecColumn  two Column objects: __set_name__, ==, != and alias_name   *)
(*   SpecCompile two generate_sql calls on one query, interleaved          *)
(***************************************************************************)
EXTENDS Integers, Sequences, FiniteSets, TLC

VARIABLES
    \* ---- SelectQuery fields (query.py 131-150)
    table,            \* self.table: a table name, or "None"
    conditions,       \* self.conditions: sequence of conditions
    row_limit,        \* self.row_limit: None or Some(n)
    row_offset,       \* self.row_offset: None or Some(n)
    orderer,          \* self.orderer: None or Some(sorter)
    \* ---- _ResultGenerator fields (query.py 19-26)
    _results,         \* self._results: None or Some("ResultSet")
    _result_deque,    \* self._result_deque: sequence of rows
    \* ---- the frame of the __anext__ call in progress
    pc,               \* "idle", "run_select_query" or "fetch_row"
    last_pkey,        \* _fill's local last_pkey: None or Some(tuple)
    rows_filled,      \* _fill's local rows_filled
    \* ---- the cursor collaborator
    cursorRows,       \* the rows the result set will return, in order
    cursorPos,        \* how many of them fetch_row has returned
    fetchCount,       \* how many fetch_row calls have ended (returned or raised)
    fetchErrors,      \* how many of them raised
    executeCount,     \* how many times the query was handed to the cursor
    \* ---- what the caller of the stream has seen
    outcome,          \* how the last __anext__ ended
    yielded,          \* the TableRow objects returned so far, in order
    groups,           \* the physical rows drained for each of them
    stops,            \* how many times StopAsyncIteration was raised
    pulls,            \* the frames of __anext__ calls that overlap in time
    \* ---- what the caller of a builder has seen
    lastCall,         \* the last builder/compile call: [op, args]
    raised,           \* the exception it raised, or "none"
    returned,         \* what it returned
    emitted,          \* the placeholder names it drew from its counter
    compileCount,     \* SelectQuery compiles returned since the last change
    \* ---- InsertQuery / RowUpdateQuery / RowDeleteQuery
    kind,             \* which of the three classes the batch query is
    rows_to_run,      \* rows_to_insert / rows_to_update / rows_to_delete
    \* ---- Column objects (column.py 36-107)
    column_objs,      \* for each Column object its fields name and table
    \* ---- generate_sql calls in progress at the same time
    frames            \* for each call its locals: position, counter, names

selectVars == <<conditions, row_limit, row_offset, orderer>>
streamVars == <<_results, _result_deque, pc, last_pkey, rows_filled,
                cursorRows, cursorPos, fetchCount, fetchErrors,
                outcome, yielded, groups, stops, pulls>>
callVars   == <<lastCall, raised, returned, emitted, compileCount>>
batchVars  == <<kind, rows_to_run>>
columnVars == <<column_objs>>
compileVars == <<frames>>
vars == <<table, selectVars, streamVars, executeCount, callVars, batchVars,
          columnVars, compileVars>>

(***************************************************************************)
(* Python's None and optional values.                                      *)
(***************************************************************************)
None == <<>>
Some(v) == <<v>>
IsNone(o) == o = None
Val(o) == o[1]

(***************************************************************************)
(* Bounds of the model.                                                    *)
(***************************************************************************)
MaxRows == 3          \* longest cursor result
MaxStops == 2         \* pulls allowed to end with StopAsyncIteration
MaxConds == 2         \* longest list of conditions of a SelectQuery
MaxCompiles == 2      \* compiles counted on an unchanged query
MaxExecutes == 1      \* runs of the query through the session
MaxBatchRows == 3     \* most rows held by an insert/update/delete query
MaxFetchErrors == 2   \* fetches the cursor is allowed to fail

(* More fetches than any run of pulls over such a cursor needs: one per row,
   one end marker per pull that drains buffered rows or stops, and the
   failed ones. *)
MaxFetches == 2 * MaxRows + MaxStops + MaxFetchErrors

\* ------------------------------------------------------------------------
\* Schema metadata
\* ------------------------------------------------------------------------

(* The tables of the schema under test.  "users" has one joined relationship
   to "posts" and one relationship that is not loaded by a join; "tags" has
   no relationship; "logs" has no relationship and declares no primary key. *)
Tables ==
    [ users |-> [ tablename |-> "users", columns |-> <<"id", "name">>,
                  primary_key |-> <<"id">>,
                  relationships |->
                      << [ load_type |-> "select", foreign_table |-> "tags",
                           join_columns |-> << <<"users", "id">>, <<"tags", "id">> >> ],
                         [ load_type |-> "joined", foreign_table |-> "posts",
                           join_columns |-> << <<"users", "id">>, <<"posts", "user_id">> >> ] >> ],
      posts |-> [ tablename |-> "posts", columns |-> <<"id", "user_id">>,
                  primary_key |-> <<"id">>, relationships |-> <<>> ],
      tags  |-> [ tablename |-> "tags", columns |-> <<"id", "name">>,
                  primary_key |-> <<"id">>, relationships |-> <<>> ],
      logs  |-> [ tablename |-> "logs", columns |-> <<"id", "name">>,
                  primary_key |-> <<>>, relationships |-> <<>> ] ]

Range(s) == { s[i] : i \in DOMAIN s }

(* Column.alias_name: t_<table name>_<column name>, quoted on request. *)
alias_name(tablename, name, quoted) ==
    LET fmt == "t_" \o tablename \o "_" \o name
    IN  IF quoted THEN "\"" \o fmt \o "\"" ELSE fmt

(* The relationships of a table that are loaded by a JOIN. *)
JoinedRelationships(t) ==
    SelectSeq(Tables[t].relationships, LAMBDA r : r.load_type = "joined")


\* ------------------------------------------------------------------------
\* Rows of a result set
\* ------------------------------------------------------------------------

UserIds == {1, 2}
PostIds == {10, 11}
NameOf(id) == IF id = 1 THEN "a" ELSE "b"

(* One row of a select on t: a value for the alias of every projected column
   (the columns of t, then those of every joined table). *)
RowsOf(t) ==
    IF t = "users"
    THEN { (alias_name("users", "id", FALSE) :> u)
           @@ (alias_name("users", "name", FALSE) :> NameOf(u))
           @@ (alias_name("posts", "id", FALSE) :> p)
           @@ (alias_name("posts", "user_id", FALSE) :> u)
           : u \in UserIds, p \in PostIds }
    ELSE { (alias_name(t, "id", FALSE) :> u)
           @@ (alias_name(t, "name", FALSE) :> NameOf(u))
           : u \in UserIds }

SeqsUpTo(S, n) == UNION { [1..k -> S] : k \in 0..n }

(* The results a select on t can produce: every row of the (joined) table at
   most once, in any order. *)
ResultSets(t) ==
    { rs \in SeqsUpTo(RowsOf(t), MaxRows) :
        \A i, j \in DOMAIN rs : rs[i] = rs[j] => i = j }

\* ------------------------------------------------------------------------
\* SelectQuery.map_columns / map_many
\* ------------------------------------------------------------------------

Session == "session"

(* TableRow._update_relationships: the row object keeps every mapping it is
   handed, in call order. *)
_update_relationships(row, data) ==
    [row EXCEPT !.relationship_updates = Append(@, data)]

(* map_columns without the loop that stores the previous values. *)
map_columns_no_snapshot(t, results) ==
    LET cols == Range(Tables[t].columns)
        mapped == { c \in cols : alias_name(Tables[t].tablename, c, FALSE) \in DOMAIN results }
        mapping == { alias_name(Tables[t].tablename, c, FALSE) : c \in cols }
        row_expando == [ c \in mapped |-> results[alias_name(Tables[t].tablename, c, FALSE)] ]
        relation_data == [ a \in (DOMAIN results) \ mapping |-> results[a] ]
        row == [ table |-> t,
                 values |-> row_expando,
                 _previous_values |-> <<>>,
                 existed |-> TRUE,
                 _session |-> Session,
                 relationship_updates |-> <<>> ]
    IN  _update_relationships(row, relation_data)

(* SelectQuery.map_columns: split the result row by alias into the values of
   the table's own columns (keyed by column name) and the rest, build the
   TableRow, snapshot its values, flag it and cascade the relation data. *)
map_columns(t, results) ==
    LET cols == Range(Tables[t].columns)
        mapped == { c \in cols : alias_name(Tables[t].tablename, c, FALSE) \in DOMAIN results }
        mapping == { alias_name(Tables[t].tablename, c, FALSE) : c \in cols }
        row_expando == [ c \in mapped |-> results[alias_name(Tables[t].tablename, c, FALSE)] ]
        relation_data == [ a \in (DOMAIN results) \ mapping |-> results[a] ]
        row == [ table |-> t,
                 values |-> row_expando,
                 _previous_values |-> [ c \in mapped |-> row_expando[c] ],
                 existed |-> TRUE,
                 _session |-> Session,
                 relationship_updates |-> <<>> ]
    IN  _update_relationships(row, relation_data)

RECURSIVE UpdateAll(_, _)
UpdateAll(row, runon) ==
    IF runon = <<>> THEN row
    ELSE UpdateAll(_update_relationships(row, Head(runon)), Tail(runon))

(* SelectQuery.map_many: the first row through map_columns, every run-on row
   handed whole to _update_relationships. *)
map_many(t, rows) == UpdateAll(map_columns(t, Head(rows)), Tail(rows))

\* ------------------------------------------------------------------------
\* _ResultGenerator
\* ------------------------------------------------------------------------

(* The primary-key tuple of a row (query.py 38-39 and 52-53). *)
Pkey(t, row) ==
    [ i \in 1..Len(Tables[t].primary_key) |->
        row[alias_name(Tables[t].tablename, Tables[t].primary_key[i], FALSE)] ]

(* FillEntry with the row left from the last call not counted. *)
FillEntryForgetsSeed(t, deque) ==
    IF deque = <<>>
    THEN [ last_pkey |-> None, rows_filled |-> 0 ]
    ELSE [ last_pkey |-> Some(Pkey(t, deque[1])), rows_filled |-> 0 ]

(* FillEntry counting one row even when no row was left. *)
FillEntryStartsAtOne(t, deque) ==
    IF deque = <<>>
    THEN [ last_pkey |-> None, rows_filled |-> 1 ]
    ELSE [ last_pkey |-> Some(Pkey(t, deque[1])), rows_filled |-> 1 ]

(* _fill, lines 30-41: peek at the row left from the last call. *)
FillEntry(t, deque) ==
    IF deque = <<>>
    THEN [ last_pkey |-> None, rows_filled |-> 0 ]
    ELSE [ last_pkey |-> Some(Pkey(t, deque[1])), rows_filled |-> 1 ]

(* IsRunOn with the primary keys not compared. *)
IsRunOnAlways(pkey, last) == TRUE

(* _fill, line 62: is the fetched row a run-on row of the current run? *)
IsRunOn(pkey, last) == pkey = last

(* cursor.fetch_row(): the next row, or None once the rows are used up. *)
fetch_row == IF cursorPos < Len(cursorRows) THEN Some(cursorRows[cursorPos + 1]) ELSE None

(* __anext__ popping every buffered row instead of the `filled` first. *)
AnextFinishDrainsAll(deque, filled) ==
    /\ pc' = "idle"
    /\ last_pkey' = None
    /\ rows_filled' = 0
    /\ IF filled = 0
       THEN /\ outcome' = "StopAsyncIteration"
            /\ stops' = stops + 1
            /\ _result_deque' = deque
            /\ UNCHANGED <<yielded, groups>>
       ELSE LET rows == deque
            IN  /\ outcome' = "row"
                /\ _result_deque' = <<>>
                /\ yielded' = Append(yielded,
                                     IF Len(rows) = 1 THEN map_columns(table, rows[1])
                                     ELSE map_many(table, rows))
                /\ groups' = Append(groups, rows)
                /\ UNCHANGED stops

(* __anext__, lines 81-88, run when _fill has returned `filled` with the
   buffer `deque`: raise StopAsyncIteration, or drain and map the run.
   popleft on an empty deque raises IndexError with the rows popped so far
   lost. *)
AnextFinish(deque, filled) ==
    /\ pc' = "idle"
    /\ last_pkey' = None
    /\ rows_filled' = 0
    /\ IF filled = 0
       THEN /\ outcome' = "StopAsyncIteration"
            /\ stops' = stops + 1
            /\ _result_deque' = deque
            /\ UNCHANGED <<yielded, groups>>
       ELSE IF filled > Len(deque)
       THEN /\ outcome' = "IndexError"
            /\ _result_deque' = <<>>
            /\ UNCHANGED <<yielded, groups, stops>>
       ELSE LET rows == SubSeq(deque, 1, filled)
            IN  /\ outcome' = "row"
                /\ _result_deque' = SubSeq(deque, filled + 1, Len(deque))
                /\ yielded' = Append(yielded,
                                     IF Len(rows) = 1 THEN map_columns(table, rows[1])
                                     ELSE map_many(table, rows))
                /\ groups' = Append(groups, rows)
                /\ UNCHANGED stops

(* A test that takes every pull for the first one. *)
NoResultsYetAlways(results) == TRUE

(* __anext__, line 75: `if self._results is None`. *)
NoResultsYet(results) == IsNone(results)

(* __anext__ is called (lines 73-79): without a result set it awaits
   run_select_query, otherwise it enters _fill and awaits the first fetch. *)
Anext ==
    /\ pc = "idle"
    /\ stops < MaxStops
    /\ fetchCount < MaxFetches
    /\ outcome' = "pending"
    /\ IF NoResultsYet(_results)
       THEN /\ pc' = "run_select_query"
            /\ UNCHANGED <<last_pkey, rows_filled>>
       ELSE /\ pc' = "fetch_row"
            /\ last_pkey' = FillEntry(table, _result_deque).last_pkey
            /\ rows_filled' = FillEntry(table, _result_deque).rows_filled
    /\ UNCHANGED <<_results, _result_deque, cursorRows, cursorPos, executeCount,
                   fetchCount, fetchErrors,
                   yielded, groups, stops>>
    /\ UNCHANGED <<table, selectVars, callVars, batchVars, columnVars, compileVars, pulls>>

(* run_select_query returns the result set (line 76); _fill is entered. *)
RunSelectQueryReturns ==
    /\ pc = "run_select_query"
    /\ _results' = Some("ResultSet")
    /\ executeCount' = executeCount + 1
    /\ pc' = "fetch_row"
    /\ last_pkey' = FillEntry(table, _result_deque).last_pkey
    /\ rows_filled' = FillEntry(table, _result_deque).rows_filled
    /\ UNCHANGED <<_result_deque, cursorRows, cursorPos, fetchCount, fetchErrors,
                   outcome, yielded, groups, stops>>
    /\ UNCHANGED <<table, selectVars, callVars, batchVars, columnVars, compileVars, pulls>>

(* fetch_row returns (line 45): one turn of _fill's loop (lines 46-68) and,
   when the loop breaks, the rest of __anext__. *)
FetchRowReturns ==
    /\ pc = "fetch_row"
    /\ LET row == fetch_row
       IN  IF IsNone(row)
           THEN /\ AnextFinish(_result_deque, rows_filled)
                /\ UNCHANGED cursorPos
           ELSE LET deque == Append(_result_deque, Val(row))
                    pkey == Pkey(table, Val(row))
                IN  /\ cursorPos' = cursorPos + 1
                    /\ IF IsNone(last_pkey)
                       THEN /\ last_pkey' = Some(pkey)
                            /\ rows_filled' = rows_filled + 1
                            /\ _result_deque' = deque
                            /\ UNCHANGED <<pc, outcome, yielded, groups, stops>>
                       ELSE IF IsRunOn(pkey, Val(last_pkey))
                       THEN /\ rows_filled' = rows_filled + 1
                            /\ _result_deque' = deque
                            /\ UNCHANGED <<pc, last_pkey, outcome, yielded, groups, stops>>
                       ELSE AnextFinish(deque, rows_filled)
    /\ fetchCount' = fetchCount + 1
    /\ UNCHANGED <<_results, cursorRows, executeCount, fetchErrors>>
    /\ UNCHANGED <<table, selectVars, callVars, batchVars, columnVars, compileVars, pulls>>

NoCall == [ op |-> "none", args |-> <<>> ]

InitSelectFields ==
    /\ conditions = <<>>
    /\ row_limit = None
    /\ row_offset = None
    /\ orderer = None

InitCalls ==
    /\ lastCall = NoCall
    /\ raised = "none"
    /\ returned = None
    /\ emitted = <<>>
    /\ compileCount = 0

(* The calls of __anext__ that can be in progress at the same time, and the
   frame of one that is not. *)
PullIds == {1, 2}
NoPull == [ pc |-> "idle", last_pkey |-> None, rows_filled |-> 0, outcome |-> "none" ]

InitGenerator ==
    /\ pulls = [ p \in PullIds |-> NoPull ]
    /\ _results = None
    /\ _result_deque = <<>>
    /\ pc = "idle"
    /\ last_pkey = None
    /\ rows_filled = 0
    /\ cursorPos = 0
    /\ fetchCount = 0
    /\ fetchErrors = 0
    /\ executeCount = 0
    /\ outcome = "none"
    /\ yielded = <<>>
    /\ groups = <<>>
    /\ stops = 0

InitBatch ==
    /\ kind = "InsertQuery"
    /\ rows_to_run = <<>>

(* Column.__init__, lines 73 and 76: a new Column has no name and no table. *)
ColumnIds == {"c1", "c2"}
UnboundColumn == [ name |-> None, table |-> None ]

InitColumns == column_objs = [ c \in ColumnIds |-> UnboundColumn ]

(* No generate_sql call has been made. *)
Calls == {1, 2}
NoFrame == [ pc |-> "none", i |-> 0, counter |-> 0, names |-> <<>> ]

InitFrames == frames = [ t \in Calls |-> NoFrame ]

StreamTables == {"users", "tags", "logs"}

InitStream ==
    /\ table \in StreamTables
    /\ cursorRows \in ResultSets(table)
    /\ InitGenerator
    /\ InitSelectFields
    /\ InitCalls
    /\ InitColumns
    /\ InitFrames
    /\ InitBatch

NextStream ==
    \/ Anext
    \/ RunSelectQueryReturns
    \/ FetchRowReturns

SpecStream == InitStream /\ [][NextStream]_vars

(* The consumer keeps pulling and the cursor answers every fetch. *)
SpecStreamLive == SpecStream /\ WF_vars(NextStream)


\* ------------------------------------------------------------------------
\* Properties of the result stream
\* ------------------------------------------------------------------------

(* The maximal runs of consecutive rows with equal primary-key tuple. *)
RunLength(t, rows) ==
    CHOOSE k \in 1..Len(rows) :
        /\ \A i \in 1..k : Pkey(t, rows[i]) = Pkey(t, rows[1])
        /\ k = Len(rows) \/ Pkey(t, rows[k + 1]) # Pkey(t, rows[1])

RECURSIVE Runs(_, _)
Runs(t, rows) ==
    IF rows = <<>> THEN <<>>
    ELSE LET k == RunLength(t, rows)
         IN  <<SubSeq(rows, 1, k)>> \o Runs(t, SubSeq(rows, k + 1, Len(rows)))

RECURSIVE Flatten(_)
Flatten(ss) == IF ss = <<>> THEN <<>> ELSE Head(ss) \o Flatten(Tail(ss))

(* Rows with the same primary-key tuple are adjacent. *)
Contiguous(t, rows) ==
    \A i, j \in DOMAIN rows :
        (i < j /\ Pkey(t, rows[i]) = Pkey(t, rows[j]))
            => \A k \in i..j : Pkey(t, rows[k]) = Pkey(t, rows[i])

(* No two consecutive rows share their primary-key tuple. *)
NoAdjacentEqual(t, rows) ==
    \A i \in 1..(Len(rows) - 1) : Pkey(t, rows[i]) # Pkey(t, rows[i + 1])

HasNoJoin(t) == JoinedRelationships(t) = <<>>

(* C1: for a cursor whose rows are contiguous by primary key, whenever no
   pull is in progress the records yielded so far are, one for one and in
   order, the first maximal runs of equal-key rows of the cursor: the i-th
   record was built from all K rows of the i-th run (K calls of the
   relationship step), the rows drained plus the rows still buffered are
   exactly the rows fetched, and when the end is signalled every run has
   been yielded. *)
C1_OneRecordPerRun ==
    (Contiguous(table, cursorRows) /\ pc = "idle") =>
        LET runs == Runs(table, cursorRows)
        IN  /\ Len(groups) <= Len(runs)
            /\ groups = SubSeq(runs, 1, Len(groups))
            /\ Len(yielded) = Len(groups)
            /\ \A i \in DOMAIN yielded :
                   Len(yielded[i].relationship_updates) = Len(runs[i])
            /\ Flatten(groups) \o _result_deque = SubSeq(cursorRows, 1, cursorPos)
            /\ outcome = "StopAsyncIteration" => groups = runs

(* Keys 1,1,2 were pulled to the end: a group of 2, then a group of 1. *)
C1_Witness ==
    /\ table = "users"
    /\ outcome = "StopAsyncIteration"
    /\ Len(cursorRows) = 3
    /\ Pkey(table, cursorRows[1]) = <<1>>
    /\ Pkey(table, cursorRows[2]) = <<1>>
    /\ Pkey(table, cursorRows[3]) = <<2>>
    /\ Len(groups) = 2
    /\ Len(groups[1]) = 2
    /\ Len(groups[2]) = 1

C3_EndIsTerminal ==
    /\ <>(stops > 0)
    /\ [][stops > 0 => /\ yielded' = yielded
                       /\ outcome' \in {"pending", "StopAsyncIteration"}]_vars

(* The end was signalled, and signalled again by a later pull, after rows
   had been yielded. *)
C3_Witness ==
    /\ stops >= 2
    /\ outcome = "StopAsyncIteration"
    /\ Len(yielded) >= 2


(* C12: a record mapped from one result row of a table without relationships
   has, for every column of the table, the value the row stores under
   t_<table>_<column>; its existed flag is set, it is bound to the query's
   session, and its snapshot of previous values equals its current values
   on every column of the table. *)
C12_MappedRow ==
    \A i \in DOMAIN yielded :
        (Tables[table].relationships = <<>> /\ Len(groups[i]) = 1) =>
            LET record == yielded[i]
                result == groups[i][1]
                cols == Range(Tables[table].columns)
            IN  /\ DOMAIN record.values = cols
                /\ \A c \in cols :
                       record.values[c] = result["t_" \o table \o "_" \o c]
                /\ record.existed = TRUE
                /\ record._session = Session
                /\ DOMAIN record._previous_values = cols
                /\ \A c \in cols : record._previous_values[c] = record.values[c]

(* Both rows of the table tags have been pulled and mapped one by one. *)
C12_Witness ==
    /\ table = "tags"
    /\ Len(yielded) = 2
    /\ Len(groups[1]) = 1
    /\ Len(groups[2]) = 1
    /\ yielded[1].values.id = 2
    /\ yielded[2].values.name = "a"


(* C17: the stream is pull-based. A stream that was created and not pulled
   has run nothing and fetched nothing; the query is handed to the session
   once, by the first pull and before its first fetch, and never again; a
   fetch ends only inside a pull in progress, so between pulls, and after
   the consumer's last pull, nothing is fetched. *)
C17_PullBased ==
    /\ [](/\ (outcome = "none" /\ pc = "idle") =>
                (executeCount = 0 /\ fetchCount = 0 /\ cursorPos = 0 /\ IsNone(_results))
          /\ executeCount <= 1
          /\ (outcome # "none" /\ pc # "run_select_query") => executeCount = 1)
    /\ [][ /\ executeCount' # executeCount =>
                 /\ pc = "run_select_query"
                 /\ executeCount = 0
                 /\ fetchCount = 0
                 /\ yielded = <<>>
                 /\ stops = 0
           /\ (fetchCount' # fetchCount \/ cursorPos' # cursorPos) =>
                 /\ pc = "fetch_row"
                 /\ outcome = "pending"
           /\ pc = "idle" =>
                 /\ fetchCount' = fetchCount
                 /\ cursorPos' = cursorPos
                 /\ executeCount' = executeCount
         ]_vars

(* The consumer has pulled one record of a longer result and is not pulling:
   one execute, two fetches, one row still with the cursor. *)
C17_Witness ==
    /\ pc = "idle"
    /\ outcome = "row"
    /\ Len(yielded) = 1
    /\ executeCount = 1
    /\ fetchCount = 2
    /\ cursorPos = 2
    /\ Len(cursorRows) = 3


(* C18: at every moment the rows of the groups yielded so far followed by
   the buffered rows are exactly the rows fetched so far, in fetch order (no
   row dropped, none used twice). When a pull that yields a record ended on
   a row with another primary-key tuple, that row is not in the record: the
   record is the rows fetched just before it, and it is alone in the buffer
   afterwards. A buffered row stays first in the buffer until a pull yields,
   and then it is the first row of the record yielded. *)
C18_LookaheadKept ==
    /\ [](Flatten(groups) \o _result_deque = SubSeq(cursorRows, 1, cursorPos))
    /\ [][ /\ (pc = "fetch_row" /\ pc' = "idle" /\ outcome' = "row") =>
                 LET g == groups'[Len(groups')]
                 IN  /\ Len(groups') = Len(groups) + 1
                     /\ cursorPos' = cursorPos + 1 =>
                           /\ _result_deque' = <<cursorRows[cursorPos']>>
                           /\ Pkey(table, cursorRows[cursorPos']) # Pkey(table, g[1])
                           /\ g = SubSeq(cursorRows, cursorPos' - Len(g), cursorPos)
                     /\ _result_deque # <<>> => g[1] = _result_deque[1]
           /\ (_result_deque # <<>> /\ ~(pc = "fetch_row" /\ pc' = "idle")) =>
                 /\ _result_deque' # <<>>
                 /\ _result_deque'[1] = _result_deque[1]
         ]_vars

(* The first pull read two rows of one user and stopped at the row of the
   next user; the second pull yielded a record that starts with that row. *)
C18_Witness ==
    /\ table = "users"
    /\ pc = "idle"
    /\ Len(cursorRows) = 3
    /\ Len(groups) = 2
    /\ Len(groups[1]) = 2
    /\ groups[2] = <<cursorRows[3]>>
    /\ Pkey(table, cursorRows[3]) # Pkey(table, cursorRows[1])


(* C19: whatever the order of the cursor's rows, the rows of one record all
   have the same primary-key tuple; the records are consecutive slices of
   the cursor output in cursor order; two records in a row never have the
   same key; and once the end is signalled there is one record per maximal
   run of adjacent equal-key rows, so rows with one key that are not adjacent
   come out as separate records. *)
C19_AdjacentRunsOnly ==
    /\ \A i \in DOMAIN groups :
          \A j, k \in DOMAIN groups[i] :
              Pkey(table, groups[i][j]) = Pkey(table, groups[i][k])
    /\ Flatten(groups) = SubSeq(cursorRows, 1, Len(Flatten(groups)))
    /\ \A i \in 1..(Len(groups) - 1) :
          Pkey(table, groups[i][1]) # Pkey(table, groups[i + 1][1])
    /\ Len(yielded) = Len(groups)
    /\ (pc = "idle" /\ stops > 0) => groups = Runs(table, cursorRows)

(* The rows of user 1 were separated by a row of user 2: three records, the
   first and the third for the same user. *)
C19_Witness ==
    /\ table = "users"
    /\ stops > 0
    /\ ~Contiguous(table, cursorRows)
    /\ Len(groups) = 3
    /\ Pkey(table, groups[1][1]) = Pkey(table, groups[3][1])
    /\ yielded[1].values = yielded[3].values


(* C20: the buffer stays small. Between pulls it holds at most one row, and
   then the last pull yielded a record and the row is the last one fetched,
   with a key other than that record's; before the first fetch of the first
   pull it is empty; during a pull it holds the rows of the run in progress
   and nothing else (the row that ends the run is appended in the step that
   ends the pull), all with one key and all counted in rows_filled. *)
C20_SmallBuffer ==
    /\ pc = "idle" =>
          /\ Len(_result_deque) <= 1
          /\ Len(_result_deque) = 1 =>
                /\ outcome = "row"
                /\ cursorPos >= 1
                /\ _result_deque[1] = cursorRows[cursorPos]
                /\ Pkey(table, _result_deque[1]) # Pkey(table, groups[Len(groups)][1])
    /\ pc = "run_select_query" => _result_deque = <<>>
    /\ pc = "fetch_row" =>
          /\ Len(_result_deque) = rows_filled
          /\ _result_deque = SubSeq(cursorRows, cursorPos - rows_filled + 1, cursorPos)
          /\ \A i \in DOMAIN _result_deque :
                 /\ ~IsNone(last_pkey)
                 /\ Pkey(table, _result_deque[i]) = Val(last_pkey)

(* A pull returned a record of two rows and left the row that ended the run
   as the only buffered row. *)
C20_Witness ==
    /\ pc = "idle"
    /\ outcome = "row"
    /\ Len(_result_deque) = 1
    /\ Len(groups) = 1
    /\ Len(groups[1]) = 2
    /\ cursorPos = 3


(* The aliases of a result row that belong to the table's own columns. *)
OwnAliases(t) == { "t_" \o t \o "_" \o c : c \in Range(Tables[t].columns) }

(* The part of a result row that is sourced from the relationships. *)
RelationData(t, result) ==
    [ a \in (DOMAIN result) \ OwnAliases(t) |-> result[a] ]

(* C21: a record mapped from K > 1 rows has had its relationship step called
   K times, once per row of the group in cursor order, and every call, the
   ones for the K-1 run-on rows included, was handed only the values of the
   row that are stored under aliases of other tables. *)
C21_RunOnRelationData ==
    \A i \in DOMAIN yielded :
        Len(groups[i]) > 1 =>
            /\ Len(yielded[i].relationship_updates) = Len(groups[i])
            /\ \A j \in DOMAIN groups[i] :
                   yielded[i].relationship_updates[j] = RelationData(table, groups[i][j])


(* How often the cursor has answered a fetch with the end marker: with a
   cursor that does not fail, every fetch that did not return a row. *)
EndMarkers == fetchCount - cursorPos

(* C24: once the cursor has returned the end marker no later pull fetches
   from it again, so the cursor returns the end marker at most once. *)
C24_NoFetchAfterEnd == EndMarkers <= 1


\* ------------------------------------------------------------------------
\* The result stream over a cursor that can fail
\* ------------------------------------------------------------------------

(* An exception handler around the fetch that ends the stream. *)
AnextEndsOnError(error) ==
    /\ pc' = "idle"
    /\ last_pkey' = None
    /\ rows_filled' = 0
    /\ outcome' = "StopAsyncIteration"
    /\ stops' = stops + 1
    /\ UNCHANGED <<_result_deque, yielded, groups>>

(* The awaited fetch_row raises (line 45): neither _fill nor __anext__ (line
   79) nor next (lines 91-94, StopAsyncIteration only) has a handler for it,
   so both frames are left and the caller of the pull gets the error. The
   rows appended to the deque so far stay there. *)
AnextRaises(error) ==
    /\ pc' = "idle"
    /\ last_pkey' = None
    /\ rows_filled' = 0
    /\ outcome' = error
    /\ UNCHANGED <<_result_deque, yielded, groups, stops>>

(* The cursor fails the fetch in progress; no row is consumed. *)
FetchRowRaises ==
    /\ pc = "fetch_row"
    /\ fetchErrors < MaxFetchErrors
    /\ fetchCount' = fetchCount + 1
    /\ fetchErrors' = fetchErrors + 1
    /\ AnextRaises("FetchError")
    /\ UNCHANGED <<_results, cursorRows, cursorPos, executeCount>>
    /\ UNCHANGED <<table, selectVars, callVars, batchVars, columnVars, compileVars, pulls>>

NextStreamErr ==
    \/ Anext
    \/ RunSelectQueryReturns
    \/ FetchRowReturns
    \/ FetchRowRaises

SpecStreamErr == InitStream /\ [][NextStreamErr]_vars

(* C15: when a fetch raises during a pull, that pull ends with the error: it
   does not end with StopAsyncIteration or with a record, and the records
   yielded by earlier pulls are what they were. *)
C15_FetchErrorPropagates ==
    [][ fetchErrors' # fetchErrors =>
          /\ pc = "fetch_row"
          /\ outcome = "pending"
          /\ pc' = "idle"
          /\ outcome' = "FetchError"
          /\ stops' = stops
          /\ yielded' = yielded
          /\ groups' = groups
      ]_vars

(* A pull failed in the middle of a run after an earlier pull had yielded. *)
C15_Witness ==
    /\ outcome = "FetchError"
    /\ fetchErrors = 1
    /\ Len(yielded) = 1
    /\ Len(_result_deque) = 2


(* How many rows at the head of the deque have the key of its first row. *)
LeadingRun(t, deque) == IF deque = <<>> THEN 0 ELSE RunLength(t, deque)

(* C23: after a pull has failed on a fetch with rows of a run already in the
   buffer, the stream still groups correctly: a pull in progress counts every
   buffered row of its run, no record mixes primary keys, over a cursor that
   is contiguous by key no two records in a row have the same key (no run is
   split), and the rows yielded plus the rows buffered are the rows fetched. *)
C23_GroupsSurviveErrors ==
    fetchErrors > 0 =>
        /\ pc = "fetch_row" => rows_filled = LeadingRun(table, _result_deque)
        /\ \A i \in DOMAIN groups :
              \A j, k \in DOMAIN groups[i] :
                  Pkey(table, groups[i][j]) = Pkey(table, groups[i][k])
        /\ Contiguous(table, cursorRows) =>
              \A i \in 1..(Len(groups) - 1) :
                  Pkey(table, groups[i][1]) # Pkey(table, groups[i + 1][1])
        /\ Flatten(groups) \o _result_deque = SubSeq(cursorRows, 1, cursorPos)


\* ------------------------------------------------------------------------
\* Two pulls on one stream that overlap in time
\* ------------------------------------------------------------------------

(* __anext__ has no guard against a second call while one is suspended: each
   call has its own frame (the locals of __anext__ and _fill) and all of
   them work on the same _results and _result_deque. *)
Frame(p, pc_, last, filled, out) ==
    [ pulls EXCEPT ![p] = [ pc |-> pc_, last_pkey |-> last,
                            rows_filled |-> filled, outcome |-> out ] ]

(* Lines 81-88 in the frame of pull p. *)
PullFinish(p, deque, filled) ==
    IF filled = 0
    THEN /\ pulls' = Frame(p, "idle", None, 0, "StopAsyncIteration")
         /\ stops' = stops + 1
         /\ _result_deque' = deque
         /\ UNCHANGED <<yielded, groups>>
    ELSE IF filled > Len(deque)
    THEN /\ pulls' = Frame(p, "idle", None, 0, "IndexError")
         /\ _result_deque' = <<>>
         /\ UNCHANGED <<yielded, groups, stops>>
    ELSE LET rows == SubSeq(deque, 1, filled)
         IN  /\ pulls' = Frame(p, "idle", None, 0, "row")
             /\ _result_deque' = SubSeq(deque, filled + 1, Len(deque))
             /\ yielded' = Append(yielded,
                                  IF Len(rows) = 1 THEN map_columns(table, rows[1])
                                  ELSE map_many(table, rows))
             /\ groups' = Append(groups, rows)
             /\ UNCHANGED stops

(* Pull p is called (lines 73-79), whatever the other pull is doing. *)
PullBegin(p) ==
    /\ pulls[p].pc = "idle"
    /\ stops < MaxStops
    /\ fetchCount < MaxFetches
    /\ IF NoResultsYet(_results)
       THEN pulls' = Frame(p, "run_select_query", None, 0, "pending")
       ELSE pulls' = Frame(p, "fetch_row",
                           FillEntry(table, _result_deque).last_pkey,
                           FillEntry(table, _result_deque).rows_filled, "pending")
    /\ UNCHANGED <<_results, _result_deque, cursorRows, cursorPos, executeCount,
                   fetchCount, fetchErrors, yielded, groups, stops>>
    /\ UNCHANGED <<pc, last_pkey, rows_filled, outcome>>
    /\ UNCHANGED <<table, selectVars, callVars, batchVars, columnVars, compileVars>>

(* run_select_query returns to pull p (line 76): self._results is assigned
   the result set of this execution, which starts at its first row; pull p
   enters _fill. *)
PullRunSelectQueryReturns(p) ==
    /\ pulls[p].pc = "run_select_query"
    /\ _results' = Some("ResultSet")
    /\ executeCount' = executeCount + 1
    /\ cursorPos' = 0
    /\ pulls' = Frame(p, "fetch_row",
                      FillEntry(table, _result_deque).last_pkey,
                      FillEntry(table, _result_deque).rows_filled, "pending")
    /\ UNCHANGED <<_result_deque, cursorRows, fetchCount, fetchErrors,
                   yielded, groups, stops>>
    /\ UNCHANGED <<pc, last_pkey, rows_filled, outcome>>
    /\ UNCHANGED <<table, selectVars, callVars, batchVars, columnVars, compileVars>>

(* fetch_row returns to pull p (line 45): one turn of the loop of its _fill
   (lines 46-68) and, when the loop breaks, the rest of its __anext__. *)
PullFetchRowReturns(p) ==
    /\ pulls[p].pc = "fetch_row"
    /\ LET row == fetch_row
           f == pulls[p]
       IN  IF IsNone(row)
           THEN /\ PullFinish(p, _result_deque, f.rows_filled)
                /\ UNCHANGED cursorPos
           ELSE LET deque == Append(_result_deque, Val(row))
                    pkey == Pkey(table, Val(row))
                IN  /\ cursorPos' = cursorPos + 1
                    /\ IF IsNone(f.last_pkey)
                       THEN /\ pulls' = Frame(p, "fetch_row", Some(pkey),
                                              f.rows_filled + 1, "pending")
                            /\ _result_deque' = deque
                            /\ UNCHANGED <<yielded, groups, stops>>
                       ELSE IF IsRunOn(pkey, Val(f.last_pkey))
                       THEN /\ pulls' = Frame(p, "fetch_row", f.last_pkey,
                                              f.rows_filled + 1, "pending")
                            /\ _result_deque' = deque
                            /\ UNCHANGED <<yielded, groups, stops>>
                       ELSE PullFinish(p, deque, f.rows_filled)
    /\ fetchCount' = fetchCount + 1
    /\ UNCHANGED <<_results, cursorRows, executeCount, fetchErrors>>
    /\ UNCHANGED <<pc, last_pkey, rows_filled, outcome>>
    /\ UNCHANGED <<table, selectVars, callVars, batchVars, columnVars, compileVars>>

NextOverlap ==
    \/ \E p \in PullIds : PullBegin(p)
    \/ \E p \in PullIds : PullRunSelectQueryReturns(p)
    \/ \E p \in PullIds : PullFetchRowReturns(p)

SpecOverlap == InitStream /\ [][NextOverlap]_vars

(* C25: a pull that starts while another pull on the same stream is
   suspended does no harm: the query is executed at most once, every record
   was built from rows of one primary-key tuple, no row is in two records or
   twice in one, and the rows yielded followed by the rows buffered are the
   rows fetched, in fetch order. *)
C25_OverlapIsHarmless ==
    /\ executeCount <= 1
    /\ \A i \in DOMAIN groups :
          \A j, k \in DOMAIN groups[i] :
              Pkey(table, groups[i][j]) = Pkey(table, groups[i][k])
    /\ \A i, j \in DOMAIN Flatten(groups) :
          Flatten(groups)[i] = Flatten(groups)[j] => i = j
    /\ Flatten(groups) \o _result_deque = SubSeq(cursorRows, 1, cursorPos)


\* ------------------------------------------------------------------------
\* Operators and sorters handed to a SelectQuery
\* ------------------------------------------------------------------------

(* Column.quoted_fullname: "table"."column". *)
quoted_fullname(column) == "\"" \o column[1] \o "\".\"" \o column[2] \o "\""

(* Table.__quoted_name__ *)
quoted_name(tablename) == "\"" \o tablename \o "\""

(* session.bind.emit_param: the dialect's marker for a named parameter. *)
emit_param(name) == "{" \o name \o "}"

ColId == [ type |-> "Column", column |-> <<"users", "id">> ]
ColName == [ type |-> "Column", column |-> <<"users", "name">> ]
AscSorter(cols) == [ type |-> "AscSorter", cols |-> cols ]
DescSorter(cols) == [ type |-> "DescSorter", cols |-> cols ]
IsSorter(item) == item.type \in {"AscSorter", "DescSorter"}

(* The conditions a caller may add: a comparison with a bound value, a
   comparison with a bound value of None, a comparison of two columns, and a
   membership test that binds one parameter per item. *)
Conds ==
    { [ kind |-> "value", column |-> <<"users", "id">>, other |-> <<"users", "id">>,
        value |-> Some(7), items |-> <<>> ],
      [ kind |-> "value", column |-> <<"users", "name">>, other |-> <<"users", "name">>,
        value |-> None, items |-> <<>> ],
      [ kind |-> "column", column |-> <<"users", "id">>, other |-> <<"posts", "user_id">>,
        value |-> None, items |-> <<>> ],
      [ kind |-> "in", column |-> <<"users", "id">>, other |-> <<"users", "id">>,
        value |-> None, items |-> <<1, 2>> ] }

param_name(n) == "param_" \o ToString(n)

RECURSIVE JoinStrings(_, _)
JoinStrings(sep, ss) ==
    IF ss = <<>> THEN ""
    ELSE IF Len(ss) = 1 THEN ss[1]
    ELSE ss[1] \o sep \o JoinStrings(sep, Tail(ss))

(* BaseOperator.generate_sql(emitter, counter): the SQL fragment, the name
   of the parameter (or None), the bound value (None, a value, or a dict of
   several parameters when name is None), and the counter afterwards. *)
condition_generate_sql(c, counter) ==
    IF c.kind = "value"
    THEN [ sql |-> quoted_fullname(c.column) \o " = " \o emit_param(param_name(counter)),
           name |-> Some(param_name(counter)),
           val |-> c.value, dict |-> None,
           counter |-> counter + 1,
           names |-> <<param_name(counter)>> ]
    ELSE IF c.kind = "column"
    THEN [ sql |-> quoted_fullname(c.column) \o " = " \o quoted_fullname(c.other),
           name |-> None, val |-> None, dict |-> None,
           counter |-> counter,
           names |-> <<>> ]
    ELSE LET names == [ i \in 1..Len(c.items) |-> param_name(counter + i - 1) ]
         IN  [ sql |-> quoted_fullname(c.column) \o " IN ("
                       \o JoinStrings(", ", [ i \in 1..Len(names) |-> emit_param(names[i]) ])
                       \o ")",
               name |-> None, val |-> None,
               dict |-> Some([ n \in Range(names) |->
                                 c.items[CHOOSE i \in 1..Len(names) : names[i] = n] ]),
               counter |-> counter + Len(c.items),
               names |-> names ]

(* Sorter.generate_sql(emitter, counter): the sorted columns with their
   direction; a sorter binds no parameter. *)
sorter_generate_sql(sorter) ==
    JoinStrings(", ",
        [ i \in 1..Len(sorter.cols) |->
            quoted_fullname(sorter.cols[i].column)
            \o (IF sorter.type = "AscSorter" THEN " ASC" ELSE " DESC") ])

\* ------------------------------------------------------------------------
\* SelectQuery.generate_sql
\* ------------------------------------------------------------------------

(* get_required_join_paths: the foreign tables and JOIN clauses of the
   relationships loaded by a join, in declaration order. *)
get_required_join_paths(t) ==
    LET rels == JoinedRelationships(t)
    IN  [ foreign_tables |-> [ i \in 1..Len(rels) |-> rels[i].foreign_table ],
          joins |-> [ i \in 1..Len(rels) |->
                        <<"JOIN", quoted_name(Tables[rels[i].foreign_table].tablename),
                          "ON", quoted_fullname(rels[i].join_columns[1]) \o " = "
                                \o quoted_fullname(rels[i].join_columns[2])>> ] ]

(* The projection of one table (lines 184-185), one entry per column. *)
column_names(t) ==
    [ i \in 1..Len(Tables[t].columns) |->
        quoted_fullname(<<Tables[t].tablename, Tables[t].columns[i]>>) \o " AS "
        \o alias_name(Tables[t].tablename, Tables[t].columns[i], TRUE) ]

(* Shared counter: one that goes on where the last compile stopped. *)
NewCounterShared == Len(emitted)

(* itertools.count() (line 179): a fresh counter for this compile. *)
NewCounter == 0

(* Lines 201-207: which bound values enter the parameter map. *)
BindParams(params, r) ==
    IF ~IsNone(r.dict) /\ IsNone(r.name) THEN Val(r.dict) @@ params
    ELSE IF ~IsNone(r.val) THEN (Val(r.name) :> Val(r.val)) @@ params
    ELSE params

(* Lines 196-209: the loop over the conditions. *)
RECURSIVE CompileConditions(_, _)
CompileConditions(conds, acc) ==
    IF conds = <<>> THEN acc
    ELSE LET r == condition_generate_sql(Head(conds), acc.counter)
         IN  CompileConditions(Tail(conds),
                 [ c_sql |-> Append(acc.c_sql, r.sql),
                   params |-> BindParams(acc.params, r),
                   counter |-> r.counter,
                   emitted |-> acc.emitted \o r.names ])

(* " AND ".join(c_sql) as tokens. *)
RECURSIVE JoinAnd(_)
JoinAnd(c_sql) ==
    IF Len(c_sql) <= 1 THEN c_sql
    ELSE <<Head(c_sql), "AND">> \o JoinAnd(Tail(c_sql))

(* Clauses testing limit and offset for truth instead of for None. *)
ClausesTruthy(joins, c_sql, lim, off, ord) ==
    Flatten(joins)
    \o (IF c_sql # <<>> THEN <<"WHERE">> \o JoinAnd(c_sql) ELSE <<>>)
    \o (IF ~IsNone(lim) /\ Val(lim) # 0 THEN <<"LIMIT", ToString(Val(lim))>> ELSE <<>>)
    \o (IF ~IsNone(off) /\ Val(off) # 0 THEN <<"OFFSET", ToString(Val(off))>> ELSE <<>>)
    \o (IF ~IsNone(ord) THEN <<"ORDER BY", sorter_generate_sql(Val(ord))>> ELSE <<>>)

(* Lines 211-227: the optional clauses, in the order they are appended. *)
Clauses(joins, c_sql, lim, off, ord) ==
    Flatten(joins)
    \o (IF c_sql # <<>> THEN <<"WHERE">> \o JoinAnd(c_sql) ELSE <<>>)
    \o (IF ~IsNone(lim) THEN <<"LIMIT", ToString(Val(lim))>> ELSE <<>>)
    \o (IF ~IsNone(off) THEN <<"OFFSET", ToString(Val(off))>> ELSE <<>>)
    \o (IF ~IsNone(ord) THEN <<"ORDER BY", sorter_generate_sql(Val(ord))>> ELSE <<>>)

(* Lines 183-229 of generate_sql, for a query whose table is set. *)
compile_select(tbl, conds, lim, off, ord) ==
    LET paths == get_required_join_paths(tbl)
        projection == column_names(tbl)
            \o Flatten([ i \in 1..Len(paths.foreign_tables) |->
                           column_names(paths.foreign_tables[i]) ])
        compiled == CompileConditions(conds,
                        [ c_sql |-> <<>>, params |-> <<>>,
                          counter |-> NewCounter, emitted |-> <<>> ])
    IN  [ raised |-> "none",
          sql |-> <<"SELECT">> \o projection
                  \o <<"FROM", quoted_name(Tables[tbl].tablename)>>
                  \o Clauses(paths.joins, compiled.c_sql, lim, off, ord),
          params |-> compiled.params,
          emitted |-> compiled.emitted ]

(* generate_sql that emits a statement without a table instead of failing. *)
generate_sql_lenient(tbl, conds, lim, off, ord) ==
    IF tbl = "None"
    THEN [ raised |-> "none", sql |-> <<"SELECT", "FROM">>, params |-> <<>>,
           emitted |-> <<>> ]
    ELSE compile_select(tbl, conds, lim, off, ord)

(* generate_sql: the SQL text, as its sequence of tokens, and the parameter
   map; with no table set, line 182 fails on None.iter_relationships(). *)
generate_sql(tbl, conds, lim, off, ord) ==
    IF tbl = "None"
    THEN [ raised |-> "AttributeError", sql |-> <<>>, params |-> <<>>, emitted |-> <<>> ]
    ELSE compile_select(tbl, conds, lim, off, ord)

\* ------------------------------------------------------------------------
\* SelectQuery: the builder calls
\* ------------------------------------------------------------------------

Call(op, args) == [ op |-> op, args |-> args ]
ReturnedSelf == [ type |-> "SelectQuery" ]
ReturnedNothing == [ type |-> "nothing" ]
ReturnedTuple(sql, params) == [ type |-> "tuple", sql |-> sql, params |-> params ]
ReturnedGenerator == [ type |-> "_ResultGenerator" ]

(* A builder call returned self. *)
Returns(op, args) ==
    /\ lastCall' = Call(op, args)
    /\ raised' = "none"
    /\ returned' = ReturnedSelf
    /\ emitted' = <<>>
    /\ compileCount' = 0

(* A call raised. *)
Raises(op, args, error) ==
    /\ lastCall' = Call(op, args)
    /\ raised' = error
    /\ returned' = ReturnedNothing
    /\ emitted' = <<>>
    /\ compileCount' = 0

(* from_ / set_table / __call__ *)
From(t) ==
    /\ table' = t
    /\ Returns("from_", <<t>>)
    /\ UNCHANGED <<selectVars, streamVars, executeCount, batchVars, columnVars, compileVars>>

(* add_condition *)
AddCondition(c) ==
    /\ Len(conditions) < MaxConds
    /\ conditions' = Append(conditions, c)
    /\ Returns("add_condition", <<c>>)
    /\ UNCHANGED <<table, row_limit, row_offset, orderer, streamVars, executeCount, batchVars, columnVars, compileVars>>

(* where that replaces the list of conditions by the conditions passed. *)
WhereReplaces(cs) ==
    /\ Len(conditions) + Len(cs) <= MaxConds
    /\ conditions' = cs
    /\ Returns("where", <<cs>>)
    /\ UNCHANGED <<table, row_limit, row_offset, orderer, streamVars, executeCount, batchVars, columnVars, compileVars>>

(* where: add_condition for each condition passed, in order. *)
Where(cs) ==
    /\ Len(conditions) + Len(cs) <= MaxConds
    /\ conditions' = conditions \o cs
    /\ Returns("where", <<cs>>)
    /\ UNCHANGED <<table, row_limit, row_offset, orderer, streamVars, executeCount, batchVars, columnVars, compileVars>>

(* limit *)
Limit(n) ==
    /\ row_limit' = Some(n)
    /\ Returns("limit", <<n>>)
    /\ UNCHANGED <<table, conditions, row_offset, orderer, streamVars, executeCount, batchVars, columnVars, compileVars>>

(* offset *)
Offset(n) ==
    /\ row_offset' = Some(n)
    /\ Returns("offset", <<n>>)
    /\ UNCHANGED <<table, conditions, row_limit, orderer, streamVars, executeCount, batchVars, columnVars, compileVars>>

(* order_by without the check for an empty argument list. *)
order_by_unchecked(col, sort_order, ord) ==
    IF Len(col) = 1 /\ IsSorter(col[1])
    THEN [ raised |-> "none", orderer |-> Some(col[1]) ]
    ELSE IF sort_order = "asc"
    THEN [ raised |-> "none", orderer |-> Some(AscSorter(col)) ]
    ELSE IF sort_order = "desc"
    THEN [ raised |-> "none", orderer |-> Some(DescSorter(col)) ]
    ELSE [ raised |-> "TypeError", orderer |-> ord ]

(* order_by with an unknown sort order taken as ascending. *)
order_by_lenient(col, sort_order, ord) ==
    IF col = <<>>
    THEN [ raised |-> "TypeError", orderer |-> ord ]
    ELSE IF Len(col) = 1 /\ IsSorter(col[1])
    THEN [ raised |-> "none", orderer |-> Some(col[1]) ]
    ELSE IF sort_order = "desc"
    THEN [ raised |-> "none", orderer |-> Some(DescSorter(col)) ]
    ELSE [ raised |-> "none", orderer |-> Some(AscSorter(col)) ]

(* order_by with arguments col and sort_order on a query whose orderer is ord: the exception
   raised, if any, and the orderer afterwards (lines 374-385). *)
order_by(col, sort_order, ord) ==
    IF col = <<>>
    THEN [ raised |-> "TypeError", orderer |-> ord ]
    ELSE IF Len(col) = 1 /\ IsSorter(col[1])
    THEN [ raised |-> "none", orderer |-> Some(col[1]) ]
    ELSE IF sort_order = "asc"
    THEN [ raised |-> "none", orderer |-> Some(AscSorter(col)) ]
    ELSE IF sort_order = "desc"
    THEN [ raised |-> "none", orderer |-> Some(DescSorter(col)) ]
    ELSE [ raised |-> "TypeError", orderer |-> ord ]

OrderBy(col, sort_order) ==
    LET r == order_by(col, sort_order, orderer)
    IN  /\ orderer' = r.orderer
        /\ IF r.raised = "none"
           THEN Returns("order_by", <<col, sort_order>>)
           ELSE Raises("order_by", <<col, sort_order>>, r.raised)
        /\ UNCHANGED <<table, conditions, row_limit, row_offset, streamVars,
                       executeCount, batchVars, columnVars, compileVars>>

(* generate_sql called by the user of the query. *)
GenerateSql ==
    /\ compileCount < MaxCompiles
    /\ LET r == generate_sql(table, conditions, row_limit, row_offset, orderer)
       IN  /\ lastCall' = Call("generate_sql", <<>>)
           /\ raised' = r.raised
           /\ emitted' = r.emitted
           /\ IF r.raised = "none"
              THEN /\ returned' = ReturnedTuple(r.sql, r.params)
                   /\ compileCount' = compileCount + 1
              ELSE /\ returned' = ReturnedNothing
                   /\ compileCount' = 0
    /\ UNCHANGED <<table, selectVars, streamVars, executeCount, batchVars, columnVars, compileVars>>

(* session.run_select_query(query), as first() and all() call it: the query
   is compiled, and the compiled SQL and parameters are handed to the cursor
   collaborator. *)
RunSelectQuery ==
    /\ executeCount < MaxExecutes
    /\ LET r == generate_sql(table, conditions, row_limit, row_offset, orderer)
       IN  /\ lastCall' = Call("run_select_query", <<>>)
           /\ raised' = r.raised
           /\ emitted' = r.emitted
           /\ compileCount' = 0
           /\ IF r.raised = "none"
              THEN /\ returned' = ReturnedGenerator
                   /\ executeCount' = executeCount + 1
              ELSE /\ returned' = ReturnedNothing
                   /\ UNCHANGED executeCount
    /\ UNCHANGED <<table, selectVars, streamVars, batchVars, columnVars, compileVars>>

SelectTables == {"users", "tags"}
LimitValues == {0, 2}
OffsetValues == {0, 1}
OrderItems == { <<>>, <<ColId>>, <<DescSorter(<<ColName>>)>> }
WhereArgs == SeqsUpTo(Conds, 2)
SortOrders == {"asc", "desc", "sideways"}

InitSelect ==
    /\ table = "None"
    /\ InitSelectFields
    /\ InitCalls
    /\ InitColumns
    /\ InitFrames
    /\ InitGenerator
    /\ cursorRows = <<>>
    /\ InitBatch

NextSelect ==
    \/ \E t \in SelectTables : From(t)
    \/ \E c \in Conds : AddCondition(c)
    \/ \E cs \in WhereArgs : Where(cs)
    \/ \E n \in LimitValues : Limit(n)
    \/ \E n \in OffsetValues : Offset(n)
    \/ \E col \in OrderItems, so \in SortOrders : OrderBy(col, so)
    \/ GenerateSql

SpecSelect == InitSelect /\ [][NextSelect]_vars

(* A query in any state the builder calls reach, compiled by its user or
   run through the session. *)
InitRun ==
    /\ table \in {"None"} \cup SelectTables
    /\ conditions \in SeqsUpTo(Conds, MaxConds)
    /\ row_limit \in {None} \cup { Some(n) : n \in LimitValues }
    /\ row_offset = None
    /\ orderer \in {None, Some(AscSorter(<<ColId>>))}
    /\ InitCalls
    /\ InitColumns
    /\ InitFrames
    /\ InitGenerator
    /\ cursorRows = <<>>
    /\ InitBatch

NextRun ==
    \/ \E t \in SelectTables : From(t)
    \/ GenerateSql
    \/ RunSelectQuery

SpecRun == InitRun /\ [][NextRun]_vars


\* ------------------------------------------------------------------------
\* Properties of SelectQuery
\* ------------------------------------------------------------------------

Compiled == lastCall.op = "generate_sql" /\ raised = "none"

(* C4: generate_sql changes no builder field (table, conditions, limit,
   offset, orderer), and a compile that directly follows a successful
   compile of the same, unmodified query returns the same SQL text and the
   same parameter map. *)
C4_CompileIsPure ==
    [][ lastCall'.op = "generate_sql" =>
          /\ table' = table
          /\ conditions' = conditions
          /\ row_limit' = row_limit
          /\ row_offset' = row_offset
          /\ orderer' = orderer
          /\ Compiled => /\ raised' = "none"
                         /\ returned' = returned ]_vars

(* A query with a join and at least two bound parameters was compiled twice
   in a row. *)
C4_Witness ==
    /\ Compiled
    /\ compileCount = 2
    /\ table = "users"
    /\ Len(emitted) >= 2
    /\ returned.type = "tuple"

(* C5 as stated: after a compile the placeholder names drawn from the
   counter are pairwise different and there are as many of them as entries
   in the returned parameter map, also when a bound value is None. *)
C5_PlaceholdersMatchParams ==
    Compiled =>
        /\ \A i, j \in DOMAIN emitted : emitted[i] = emitted[j] => i = j
        /\ Len(emitted) = Cardinality(DOMAIN returned.params)

Has(sql, tok) == tok \in Range(sql)
Positions(sql, tok) == { i \in DOMAIN sql : sql[i] = tok }
ClauseOrder == <<"FROM", "JOIN", "WHERE", "LIMIT", "OFFSET", "ORDER BY">>

(* The text of the k-th condition: what it generates with the counter left
   by the conditions added before it. *)
ConditionText(conds, k) ==
    CompileConditions(SubSeq(conds, 1, k),
        [ c_sql |-> <<>>, params |-> <<>>, counter |-> 0, emitted |-> <<>> ]).c_sql[k]

(* C6: in the SQL of a compiled select the clauses come in the order JOIN,
   WHERE, LIMIT, OFFSET, ORDER BY (after FROM); there is a JOIN exactly for
   the joined relationships; WHERE is there exactly when a condition was
   added, followed by the conditions in the order added with AND between
   them; LIMIT, OFFSET and ORDER BY are there exactly when set, once each,
   followed by their value, a limit or offset of 0 included. *)
C6_ClauseOrder ==
    Compiled =>
        LET sql == returned.sql
        IN  /\ \A a, b \in DOMAIN ClauseOrder :
                   a < b => \A i \in Positions(sql, ClauseOrder[a]),
                               j \in Positions(sql, ClauseOrder[b]) : i < j
            /\ Cardinality(Positions(sql, "JOIN")) = Len(JoinedRelationships(table))
            /\ Has(sql, "WHERE") <=> conditions # <<>>
            /\ Cardinality(Positions(sql, "WHERE")) <= 1
            /\ \A w \in Positions(sql, "WHERE") :
                   \A k \in DOMAIN conditions :
                       /\ sql[w + 2 * k - 1] = ConditionText(conditions, k)
                       /\ k < Len(conditions) => sql[w + 2 * k] = "AND"
            /\ Cardinality(Positions(sql, "AND")) =
                   (IF conditions = <<>> THEN 0 ELSE Len(conditions) - 1)
            /\ Has(sql, "LIMIT") <=> ~IsNone(row_limit)
            /\ Cardinality(Positions(sql, "LIMIT")) <= 1
            /\ \A i \in Positions(sql, "LIMIT") : sql[i + 1] = ToString(Val(row_limit))
            /\ Has(sql, "OFFSET") <=> ~IsNone(row_offset)
            /\ Cardinality(Positions(sql, "OFFSET")) <= 1
            /\ \A i \in Positions(sql, "OFFSET") : sql[i + 1] = ToString(Val(row_offset))
            /\ Has(sql, "ORDER BY") <=> ~IsNone(orderer)
            /\ Cardinality(Positions(sql, "ORDER BY")) <= 1

(* A select with a join, two conditions, limit 0, offset 0 and an order was
   compiled: every clause is in the text, with LIMIT 0 and OFFSET 0. *)
C6_Witness ==
    /\ Compiled
    /\ table = "users"
    /\ Len(conditions) = 2
    /\ row_limit = Some(0)
    /\ row_offset = Some(0)
    /\ ~IsNone(orderer)
    /\ \A a \in DOMAIN ClauseOrder : Has(returned.sql, ClauseOrder[a])
    /\ \E i \in Positions(returned.sql, "LIMIT") : returned.sql[i + 1] = "0"
    /\ \E i \in Positions(returned.sql, "OFFSET") : returned.sql[i + 1] = "0"

(* C7: order_by with zero columns raises at once and leaves the orderer and
   every other builder field as they were. *)
C7_OrderByNothingRaises ==
    [][ (lastCall'.op = "order_by" /\ lastCall'.args[1] = <<>>) =>
          /\ raised' = "TypeError"
          /\ returned' = ReturnedNothing
          /\ orderer' = orderer
          /\ table' = table
          /\ conditions' = conditions
          /\ row_limit' = row_limit
          /\ row_offset' = row_offset ]_vars

(* order_by was called without columns on a query that had an orderer. *)
C7_Witness ==
    /\ lastCall.op = "order_by"
    /\ lastCall.args[1] = <<>>
    /\ raised = "TypeError"
    /\ ~IsNone(orderer)
    /\ conditions # <<>>

SingleSorter(col) == Len(col) = 1 /\ IsSorter(col[1])

(* C8 as stated: every order_by call with a sort order other than "asc" and
   "desc" raises and leaves the orderer unchanged, whatever the columns. *)
C8_Original ==
    [][ (lastCall'.op = "order_by" /\ lastCall'.args[2] \notin {"asc", "desc"}) =>
          /\ raised' = "TypeError"
          /\ orderer' = orderer ]_vars

(* C8 amended: every order_by call with a sort order other than "asc" and
   "desc" raises and leaves the orderer unchanged, unless its only argument
   is a Sorter: then the sort order is not looked at, nothing is raised and
   that Sorter becomes the orderer. *)
C8_UnknownSortOrder ==
    [][ (lastCall'.op = "order_by" /\ lastCall'.args[2] \notin {"asc", "desc"}) =>
          IF SingleSorter(lastCall'.args[1])
          THEN /\ raised' = "none"
               /\ orderer' = Some(lastCall'.args[1][1])
          ELSE /\ raised' = "TypeError"
               /\ orderer' = orderer ]_vars

(* order_by was called with a column and an unknown sort order on a query
   that had an orderer. *)
C8_Witness ==
    /\ lastCall.op = "order_by"
    /\ lastCall.args[2] = "sideways"
    /\ lastCall.args[1] = <<ColId>>
    /\ raised = "TypeError"
    /\ ~IsNone(orderer)

(* C9: while the table of a query was never set, every compile of it, by
   generate_sql or through the session, raises and returns nothing, and
   nothing is executed on or fetched from a cursor. *)
C9_NoTableFailsFast ==
    table = "None" =>
        /\ executeCount = 0
        /\ cursorPos = 0
        /\ IsNone(_results)
        /\ lastCall.op \in {"generate_sql", "run_select_query"} =>
               /\ raised # "none"
               /\ returned = ReturnedNothing

(* A query with conditions and no table was run through the session. *)
C9_Witness ==
    /\ table = "None"
    /\ lastCall.op = "run_select_query"
    /\ raised = "AttributeError"
    /\ conditions # <<>>


(* The builder methods of SelectQuery (set_table and __call__ are from_). *)
BuilderOps == {"from_", "where", "add_condition", "limit", "offset", "order_by"}

IsPrefix(s, t) == Len(s) <= Len(t) /\ SubSeq(t, 1, Len(s)) = s

(* C11: every builder call that returns, returns the query itself; where and
   add_condition append exactly the conditions passed, in call order, to the
   end of the list, which therefore is the concatenation of everything passed
   and never gets shorter; from_, limit, offset and order_by overwrite their
   own field and nothing else; and no builder call hands the query to the
   session or touches the result stream and its cursor. *)
C11_BuildersOnlyBuild ==
    [][ (lastCall'.op \in BuilderOps /\ raised' = "none") =>
          /\ returned' = ReturnedSelf
          /\ IsPrefix(conditions, conditions')
          /\ CASE lastCall'.op = "add_condition" ->
                     /\ conditions' = Append(conditions, lastCall'.args[1])
                     /\ UNCHANGED <<table, row_limit, row_offset, orderer>>
               [] lastCall'.op = "where" ->
                     /\ conditions' = conditions \o lastCall'.args[1]
                     /\ UNCHANGED <<table, row_limit, row_offset, orderer>>
               [] lastCall'.op = "from_" ->
                     /\ table' = lastCall'.args[1]
                     /\ UNCHANGED <<conditions, row_limit, row_offset, orderer>>
               [] lastCall'.op = "limit" ->
                     /\ row_limit' = Some(lastCall'.args[1])
                     /\ UNCHANGED <<table, conditions, row_offset, orderer>>
               [] lastCall'.op = "offset" ->
                     /\ row_offset' = Some(lastCall'.args[1])
                     /\ UNCHANGED <<table, conditions, row_limit, orderer>>
               [] lastCall'.op = "order_by" ->
                     /\ ~IsNone(orderer')
                     /\ UNCHANGED <<table, conditions, row_limit, row_offset>>
          /\ UNCHANGED <<executeCount, streamVars>>
      ]_vars

(* where has appended one condition to a list that held one already, on a
   query whose limit and order were set before. *)
C11_Witness ==
    /\ lastCall.op = "where"
    /\ raised = "none"
    /\ returned = ReturnedSelf
    /\ Len(lastCall.args[1]) = 1
    /\ Len(conditions) = 2
    /\ ~IsNone(row_limit)
    /\ ~IsNone(orderer)
    /\ executeCount = 0

\* ------------------------------------------------------------------------
\* InsertQuery, RowUpdateQuery, RowDeleteQuery
\* ------------------------------------------------------------------------

Kinds == {"InsertQuery", "RowUpdateQuery", "RowDeleteQuery"}

(* The row objects handed to a query: a row with two values to write, one
   with one, and one with none. *)
BatchRows == { [ id |-> 1, nvalues |-> 2 ],
               [ id |-> 2, nvalues |-> 1 ],
               [ id |-> 3, nvalues |-> 0 ] }

(* emit() (lines 469-470, 537-538, 594-595): the token for the next value of
   the counter. *)
emit(counter) == "param_" \o ToString(counter)

(* TableRow._get_insert_sql / _get_update_sql / _get_delete_sql: the row's
   own statement; it calls emit once per value it binds (the values written
   for an insert, those and the primary key for an update, the primary key
   for a delete). *)
row_sql(k, row, counter) ==
    LET n == IF k = "InsertQuery" THEN row.nvalues
             ELSE IF k = "RowUpdateQuery" THEN row.nvalues + 1
             ELSE 1
        names == [ i \in 1..n |-> emit(counter + i - 1) ]
    IN  [ query |-> [ sql |-> <<k, ToString(row.id)>> \o names,
                      params |-> [ nm \in Range(names) |->
                                     10 * row.id + (CHOOSE i \in 1..n : names[i] = nm) ] ],
          names |-> names,
          counter |-> counter + n ]

(* A counter made anew for every row. *)
RowCounterPerRow(counter) == 0

(* The counter the next row draws from: emit closes over the one counter of
   this compile (lines 467-473), so it goes on where the last row stopped. *)
RowCounter(counter) == counter

(* The loop over the rows (lines 472-474, 540-541, 597-598). *)
RECURSIVE batch_loop(_, _, _)
batch_loop(k, rows, acc) ==
    IF rows = <<>> THEN acc
    ELSE LET r == row_sql(k, Head(rows), RowCounter(acc.counter))
         IN  batch_loop(k, Tail(rows),
                 [ queries |-> Append(acc.queries, r.query),
                   emitted |-> acc.emitted \o r.names,
                   counter |-> r.counter ])

(* generate_sql of the three classes: one (sql, params) entry per row. *)
batch_generate_sql(k, rows) ==
    batch_loop(k, rows, [ queries |-> <<>>, emitted |-> <<>>, counter |-> NewCounter ])

ReturnedNone == [ type |-> "None" ]
ReturnedList(queries) == [ type |-> "list", queries |-> queries ]

BatchReturns(op, value) ==
    /\ lastCall' = Call(op, <<>>)
    /\ raised' = "none"
    /\ returned' = value
    /\ UNCHANGED compileCount

(* add_row: append; RowDeleteQuery.add_row has no return statement. *)
AddRow(row) ==
    /\ Len(rows_to_run) < MaxBatchRows
    /\ rows_to_run' = Append(rows_to_run, row)
    /\ BatchReturns("add_row", IF kind = "RowDeleteQuery" THEN ReturnedNone
                               ELSE [ type |-> kind ])
    /\ emitted' = <<>>
    /\ UNCHANGED <<kind, table, selectVars, streamVars, executeCount,
                   columnVars, compileVars>>

(* rows: add_row for each row passed, in order. *)
Rows(rs) ==
    /\ Len(rows_to_run) + Len(rs) <= MaxBatchRows
    /\ rows_to_run' = rows_to_run \o rs
    /\ BatchReturns("rows", [ type |-> kind ])
    /\ emitted' = <<>>
    /\ UNCHANGED <<kind, table, selectVars, streamVars, executeCount,
                   columnVars, compileVars>>

BatchGenerateSql ==
    /\ LET r == batch_generate_sql(kind, rows_to_run)
       IN  /\ BatchReturns("generate_sql", ReturnedList(r.queries))
           /\ emitted' = r.emitted
    /\ UNCHANGED <<kind, rows_to_run, table, selectVars, streamVars, executeCount,
                   columnVars, compileVars>>

RowsArgs == SeqsUpTo(BatchRows, 2)

InitBatchSpec ==
    /\ kind \in Kinds
    /\ rows_to_run = <<>>
    /\ table = "None"
    /\ InitSelectFields
    /\ InitCalls
    /\ InitColumns
    /\ InitFrames
    /\ InitGenerator
    /\ cursorRows = <<>>

NextBatch ==
    \/ \E row \in BatchRows : AddRow(row)
    \/ \E rs \in RowsArgs : Rows(rs)
    \/ BatchGenerateSql

SpecBatch == InitBatchSpec /\ [][NextBatch]_vars

(* C10: a compile of an InsertQuery, RowUpdateQuery or RowDeleteQuery that
   holds N rows returns N entries, the i-th being the statement of the i-th
   row added, and the placeholder tokens handed out during the compile are
   pairwise different across all rows. *)
C10_OneEntryPerRow ==
    lastCall.op = "generate_sql" =>
        /\ Len(returned.queries) = Len(rows_to_run)
        /\ \A i \in DOMAIN rows_to_run :
               /\ returned.queries[i].sql[1] = kind
               /\ returned.queries[i].sql[2] = ToString(rows_to_run[i].id)
        /\ \A i, j \in DOMAIN emitted : emitted[i] = emitted[j] => i = j
        /\ \A i, j \in DOMAIN returned.queries :
               i # j => DOMAIN returned.queries[i].params
                            \cap DOMAIN returned.queries[j].params = {}

(* An update query holding the same row twice and another row was compiled:
   three entries, five different tokens. *)
C10_Witness ==
    /\ lastCall.op = "generate_sql"
    /\ kind = "RowUpdateQuery"
    /\ Len(rows_to_run) = 3
    /\ rows_to_run[1] = rows_to_run[2]
    /\ rows_to_run[3] # rows_to_run[1]
    /\ Len(returned.queries) = 3
    /\ Len(emitted) >= 5

\* ------------------------------------------------------------------------
\* Column
\* ------------------------------------------------------------------------

(* The tables a Column can be declared on and the attribute names it can be
   declared under. *)
OwnerNames == {"user", "user_roles", "tags"}
AttrNames == {"id", "roles_id", "name"}

(* What a Column is compared with: a Column, or a value that is not one. *)
ColumnRef(c) == [ type |-> "Column", id |-> c ]
Others == { ColumnRef(c) : c \in ColumnIds } \cup { [ type |-> "int", value |-> 7 ],
                                                    [ type |-> "NoneType" ] }

ReturnedBool(b) == [ type |-> "bool", value |-> b ]
ReturnedStr(str) == [ type |-> "str", value |-> str ]
ReturnedOperator(cls, self, other) == [ type |-> cls, column |-> self, value |-> other ]

(* Column.__eq__, lines 142-154. *)
column_eq(self, other) ==
    IF other.type = "Column"
    THEN ReturnedBool(column_objs[self].table = column_objs[other.id].table
                      /\ column_objs[self].name = column_objs[other.id].name)
    ELSE ReturnedOperator("Eq", self, other)

(* __ne__ with `and` in the place of `or`. *)
column_ne_and(self, other) ==
    IF other.type = "Column"
    THEN ReturnedBool(column_objs[self].table # column_objs[other.id].table
                      /\ column_objs[self].name # column_objs[other.id].name)
    ELSE ReturnedOperator("NEq", self, other)

(* Column.__ne__, lines 156-160. *)
column_ne(self, other) ==
    IF other.type = "Column"
    THEN ReturnedBool(column_objs[self].table # column_objs[other.id].table
                      \/ column_objs[self].name # column_objs[other.id].name)
    ELSE ReturnedOperator("NEq", self, other)

(* A call on a Column returned. *)
ColumnReturns(op, args, value) ==
    /\ lastCall' = Call(op, args)
    /\ raised' = "none"
    /\ returned' = value
    /\ UNCHANGED <<emitted, compileCount>>

(* Column.__set_name__, lines 115-124: the class body of `owner` binds the
   Column under `name`; nothing stops a second call. *)
SetName(c, owner, name) ==
    /\ column_objs' = [ column_objs EXCEPT ![c] = [ name |-> Some(name), table |-> Some(owner) ] ]
    /\ ColumnReturns("__set_name__", <<c, owner, name>>, [ type |-> "NoneType" ])
    /\ UNCHANGED <<table, selectVars, streamVars, executeCount, batchVars, compileVars>>

(* column == other *)
ColumnEq(c, other) ==
    /\ ColumnReturns("__eq__", <<c, other>>, column_eq(c, other))
    /\ UNCHANGED <<table, selectVars, streamVars, executeCount, batchVars,
                   columnVars, compileVars>>

(* column != other *)
ColumnNe(c, other) ==
    /\ ColumnReturns("__ne__", <<c, other>>, column_ne(c, other))
    /\ UNCHANGED <<table, selectVars, streamVars, executeCount, batchVars,
                   columnVars, compileVars>>

(* column.alias_name(quoted=...), lines 214-232, with the Column's own table;
   on a Column that was never bound, None has no __tablename__. *)
AliasName(c, quoted) ==
    /\ IF IsNone(column_objs[c].table)
       THEN /\ lastCall' = Call("alias_name", <<c, quoted>>)
            /\ raised' = "AttributeError"
            /\ returned' = ReturnedNothing
            /\ UNCHANGED <<emitted, compileCount>>
       ELSE ColumnReturns("alias_name", <<c, quoted>>,
                ReturnedStr(alias_name(Val(column_objs[c].table),
                                       Val(column_objs[c].name), quoted)))
    /\ UNCHANGED <<table, selectVars, streamVars, executeCount, batchVars,
                   columnVars, compileVars>>

InitColumnSpec ==
    /\ table = "None"
    /\ cursorRows = <<>>
    /\ InitSelectFields
    /\ InitCalls
    /\ InitColumns
    /\ InitFrames
    /\ InitGenerator
    /\ InitBatch

NextColumn ==
    \/ \E c \in ColumnIds, owner \in OwnerNames, name \in AttrNames : SetName(c, owner, name)
    \/ \E c \in ColumnIds, other \in Others : ColumnEq(c, other)
    \/ \E c \in ColumnIds, other \in Others : ColumnNe(c, other)
    \/ \E c \in ColumnIds, quoted \in BOOLEAN : AliasName(c, quoted)

SpecColumn == InitColumnSpec /\ [][NextColumn]_vars

Bound(c) == ~IsNone(column_objs[c].table)

(* C13: two Columns that differ in (table name, column name) never get the
   same alias, so a projection never holds one alias twice. *)
C13_AliasCollisionFree ==
    \A c, d \in ColumnIds :
        ( /\ Bound(c)
          /\ Bound(d)
          /\ <<column_objs[c].table, column_objs[c].name>>
                 # <<column_objs[d].table, column_objs[d].name>>
          /\ lastCall.op = "alias_name"
          /\ lastCall.args[1] = c
          /\ raised = "none" ) =>
            returned.value # alias_name(Val(column_objs[d].table),
                                        Val(column_objs[d].name), lastCall.args[2])

SameTableAndName(c, d) ==
    /\ column_objs[c].table = column_objs[d].table
    /\ column_objs[c].name = column_objs[d].name

(* C14: == between two Columns returns a bool that is true exactly when
   table and name are the same, so it is reflexive and symmetric; != between
   two Columns returns the negation of that bool; == and != between a Column
   and anything else return an operator object and never a bool. *)
C14_ColumnComparison ==
    /\ lastCall.op \in {"__eq__", "__ne__"} =>
          LET self == lastCall.args[1]
              other == lastCall.args[2]
          IN  IF other.type = "Column"
              THEN /\ returned.type = "bool"
                   /\ returned.value =
                          IF lastCall.op = "__eq__" THEN SameTableAndName(self, other.id)
                          ELSE ~SameTableAndName(self, other.id)
                   /\ (lastCall.op = "__eq__" /\ self = other.id) => returned.value = TRUE
              ELSE /\ returned.type # "bool"
                   /\ returned.type = (IF lastCall.op = "__eq__" THEN "Eq" ELSE "NEq")
                   /\ returned.column = self
                   /\ returned.value = other
    /\ \A c, d \in ColumnIds :
          /\ column_eq(c, ColumnRef(d)) = column_eq(d, ColumnRef(c))
          /\ column_ne(c, ColumnRef(d)).value = ~column_eq(c, ColumnRef(d)).value

(* Two Columns of one table with different names were compared with !=. *)
C14_Witness ==
    /\ lastCall.op = "__ne__"
    /\ lastCall.args[2].type = "Column"
    /\ lastCall.args[1] # lastCall.args[2].id
    /\ Bound(lastCall.args[1])
    /\ column_objs[lastCall.args[1]].table = column_objs[lastCall.args[2].id].table
    /\ column_objs[lastCall.args[1]].name # column_objs[lastCall.args[2].id].name
    /\ returned = ReturnedBool(TRUE)

\* ------------------------------------------------------------------------
\* Two generate_sql calls on one query at the same time
\* ------------------------------------------------------------------------

(* The items one compile loops over: the conditions of a SelectQuery (lines
   196-209), the rows of the three other classes (lines 472-474). *)
Items == IF kind = "SelectQuery" THEN conditions ELSE rows_to_run

(* One turn of the loop: what the item draws from the counter it is handed. *)
ItemSql(item, counter) ==
    IF kind = "SelectQuery" THEN condition_generate_sql(item, counter)
    ELSE row_sql(kind, item, RowCounter(counter))

(* A counter kept in one place for every call: the one the first call made. *)
CounterOfFirstCall(t) == frames[1].counter

(* The counter a call draws from: the local `counter` of its own frame
   (lines 179, 467, 535, 592). *)
CounterOf(t) == frames[t].counter

(* generate_sql is entered: counter = itertools.count(). *)
CompileBegin(t) ==
    /\ frames[t].pc = "none"
    /\ frames' = [ frames EXCEPT ![t] = [ pc |-> "loop", i |-> 0,
                                          counter |-> NewCounter, names |-> <<>> ] ]
    /\ UNCHANGED <<table, selectVars, streamVars, executeCount, callVars, batchVars,
                   columnVars>>

(* One turn of the loop of call t. *)
CompileItem(t) ==
    /\ frames[t].pc = "loop"
    /\ frames[t].i < Len(Items)
    /\ LET r == ItemSql(Items[frames[t].i + 1], CounterOf(t))
       IN  frames' = [ frames EXCEPT ![t] = [ pc |-> "loop", i |-> frames[t].i + 1,
                                              counter |-> r.counter,
                                              names |-> frames[t].names \o r.names ] ]
    /\ UNCHANGED <<table, selectVars, streamVars, executeCount, callVars, batchVars,
                   columnVars>>

(* The loop of call t is over and the call returns. *)
CompileEnd(t) ==
    /\ frames[t].pc = "loop"
    /\ frames[t].i = Len(Items)
    /\ frames' = [ frames EXCEPT ![t].pc = "done" ]
    /\ UNCHANGED <<table, selectVars, streamVars, executeCount, callVars, batchVars,
                   columnVars>>

InitCompile ==
    /\ kind \in {"SelectQuery"} \cup Kinds
    /\ IF kind = "SelectQuery"
       THEN /\ table = "users"
            /\ conditions \in SeqsUpTo(Conds, MaxConds)
            /\ rows_to_run = <<>>
       ELSE /\ table = "None"
            /\ conditions = <<>>
            /\ rows_to_run \in RowsArgs
    /\ row_limit = None
    /\ row_offset = None
    /\ orderer = None
    /\ cursorRows = <<>>
    /\ InitCalls
    /\ InitColumns
    /\ InitFrames
    /\ InitGenerator

NextCompile ==
    \/ \E t \in Calls : CompileBegin(t)
    \/ \E t \in Calls : CompileItem(t)
    \/ \E t \in Calls : CompileEnd(t)

SpecCompile == InitCompile /\ [][NextCompile]_vars

(* The placeholders a compile of the query draws when it runs alone. *)
SoloNames ==
    IF kind = "SelectQuery"
    THEN generate_sql(table, conditions, row_limit, row_offset, orderer).emitted
    ELSE batch_generate_sql(kind, rows_to_run).emitted

(* C16: of two compiles of one query that run at the same time, each draws
   from a counter of its own that starts at 0: at every point the names a
   call has drawn are param_0, param_1, ... without a gap, and what it has
   drawn when it returns is what a compile running alone draws, however the
   steps of the two calls interleave. *)
C16_OwnCounter ==
    \A t \in Calls :
        /\ frames[t].pc # "none" =>
              /\ frames[t].counter = Len(frames[t].names)
              /\ \A j \in DOMAIN frames[t].names :
                     frames[t].names[j] = "param_" \o ToString(j - 1)
        /\ frames[t].pc = "done" => frames[t].names = SoloNames

(* The second call of a SelectQuery compile returned while the first one had
   drawn its first placeholder and not yet its last. *)
C16_Witness ==
    /\ kind = "SelectQuery"
    /\ frames[2].pc = "done"
    /\ Len(frames[2].names) = 3
    /\ frames[1].pc = "loop"
    /\ frames[1].i = 1
    /\ Len(frames[1].names) = 1

(* C22: a Column that has its table and name keeps them: no step, a second
   __set_name__ with another owner included, changes the table or the name
   of a Column that was bound before the step. *)
C22_BoundOnce ==
    [][ \A c \in ColumnIds :
            Bound(c) =>
                /\ column_objs'[c].table = column_objs[c].table
                /\ column_objs'[c].name = column_objs[c].name
      ]_vars

====
